---- MODULE Spec2Model ----
(***************************************************************************)
(* Model of planet_express.py: the Planet record, the Euler step           *)
(* loop_euler and the driver loop of Main.                                 *)
(*                                                                         *)
(* Numbers.  The program computes in IEEE doubles; the model computes in   *)
(* integers.  Addition, subtraction and multiplication are exact, and the  *)
(* two rounding operations of the program, division and math.sqrt, round   *)
(* toward zero (Quot, ISqrt).  Like the program's rounding, Quot is        *)
(* symmetric in the sign of the dividend, and ISqrt(n) = 0 exactly when    *)
(* n = 0.  Quantities are in model units in which GRAV_CONST is a small    *)
(* integer.                                                                *)
(*                                                                         *)
(* Control.  pc is the position in Main / loop_euler:                      *)
(*   "while"  Main line 134, about to test the loop condition              *)
(*   "pair"   loop_euler lines 89-114, outer body i, inner body j          *)
(*   "move"   loop_euler lines 116-121, body i                             *)
(*   "ret"    loop_euler line 123, about to return to Main line 136        *)
(*   "done"   Main left the while loop (line 138)                          *)
(*   "failed" an exception left loop_euler and Main                        *)
(***************************************************************************)
EXTENDS Integers, Sequences, FiniteSets

VARIABLES planets, dt, year, time, pc, i, j, err, steps, pre

vars == <<planets, dt, year, time, pc, i, j, err, steps, pre>>

\* Number of Planet objects setup_planets puts in the list.
NumPlanets == 3

\* Gravitational constant, in model units.
GRAV_CONST == 60

\* Largest duration (year) and step size (dt) tried.
MaxDuration == 2
MaxDt == 2

\* Cap on the number of calls of loop_euler, reached only when dt <= 0
\* (then time never passes year and the program loops forever).
MaxSteps == MaxDuration + 2

Idx == 1..NumPlanets

----------------------------------------------------------------------------
\* Arithmetic

Abs(a) == IF a >= 0 THEN a ELSE -a

\* a / b for b > 0, rounded toward zero.
Quot(a, b) == IF a >= 0 THEN a \div b ELSE -((-a) \div b)

\* math.sqrt, rounded toward zero.
ISqrt(n) == CHOOSE r \in 0..n : r * r <= n /\ (r + 1) * (r + 1) > n

----------------------------------------------------------------------------
\* Planet

Planet(name, x, y, vx, vy, ax, ay, mass, E_kin, E_pot) ==
    [name |-> name, x |-> x, y |-> y, vx |-> vx, vy |-> vy,
     ax |-> ax, ay |-> ay, mass |-> mass, E_kin |-> E_kin, E_pot |-> E_pot,
     total_energy |-> 0,
     x_positions |-> <<>>, y_positions |-> <<>>,
     energies |-> <<>>, kin_energies |-> <<>>, pot_energies |-> <<>>]

get_velocity(p) == ISqrt(p.vx * p.vx + p.vy * p.vy)

----------------------------------------------------------------------------
\* loop_euler, one loop iteration per operator.  ps is the list planets.

\* Distance with a fault: dy is left out of the distance.
DistanceXOnly(ps, a, b) ==
    LET dx == ps[a].x - ps[b].x
    IN  ISqrt(dx * dx)

\* distance of lines 92-95 for the pair (a, b)
Distance(ps, a, b) ==
    LET dx == ps[a].x - ps[b].x
        dy == ps[a].y - ps[b].y
    IN  ISqrt(dx * dx + dy * dy)

\* float(distance**3) is 0.0 at line 97: the division raises ZeroDivisionError
DivisionByZero(ps, a, b) == Distance(ps, a, b) = 0

\* Interact with a fault: the accumulators are assigned, not added to.
InteractAssign(ps, a, b) ==
    LET dx == ps[a].x - ps[b].x
        dy == ps[a].y - ps[b].y
        distance == Distance(ps, a, b)
        acc_factor == Quot(-GRAV_CONST * ps[b].mass, distance * distance * distance)
    IN  [ps EXCEPT ![a].ax = acc_factor * dx,
                   ![a].ay = acc_factor * dy,
                   ![a].E_pot = @ + Quot(-GRAV_CONST * ps[a].mass * ps[b].mass, distance)]

\* Interact with a fault: the pair is computed once and the opposite
\* acceleration is written into other_planet as well.
InteractSymmetric(ps, a, b) ==
    LET dx == ps[a].x - ps[b].x
        dy == ps[a].y - ps[b].y
        distance == Distance(ps, a, b)
        acc_factor == Quot(-GRAV_CONST * ps[b].mass, distance * distance * distance)
        back_factor == Quot(-GRAV_CONST * ps[a].mass, distance * distance * distance)
    IN  [ps EXCEPT ![a].ax = @ + acc_factor * dx,
                   ![a].ay = @ + acc_factor * dy,
                   ![a].E_pot = @ + Quot(-GRAV_CONST * ps[a].mass * ps[b].mass, distance),
                   ![b].ax = @ - back_factor * dx,
                   ![b].ay = @ - back_factor * dy]

\* Interact with a fault: the factor takes the planet's own mass.
InteractOwnMass(ps, a, b) ==
    LET dx == ps[a].x - ps[b].x
        dy == ps[a].y - ps[b].y
        distance == Distance(ps, a, b)
        acc_factor == Quot(-GRAV_CONST * ps[a].mass, distance * distance * distance)
    IN  [ps EXCEPT ![a].ax = @ + acc_factor * dx,
                   ![a].ay = @ + acc_factor * dy,
                   ![a].E_pot = @ + Quot(-GRAV_CONST * ps[a].mass * ps[b].mass, distance)]

\* lines 92-102: one iteration of the inner loop, planet a, other_planet b
Interact(ps, a, b) ==
    LET dx == ps[a].x - ps[b].x
        dy == ps[a].y - ps[b].y
        distance == Distance(ps, a, b)
        acc_factor == Quot(-GRAV_CONST * ps[b].mass, distance * distance * distance)
    IN  [ps EXCEPT ![a].ax = @ + acc_factor * dx,
                   ![a].ay = @ + acc_factor * dy,
                   ![a].E_pot = @ + Quot(-GRAV_CONST * ps[a].mass * ps[b].mass, distance)]

\* UpdateVelocity with a fault: the position is advanced in the first loop too.
UpdateVelocityAndMove(ps, a, h) ==
    LET vx == ps[a].vx + ps[a].ax * h
        vy == ps[a].vy + ps[a].ay * h
        v == get_velocity([vx |-> vx, vy |-> vy])
        E_kin == Quot(ps[a].mass * v * v, 2)
        total == E_kin + ps[a].E_pot
    IN  [ps EXCEPT ![a].vx = vx, ![a].vy = vy,
                   ![a].x = @ + vx * h, ![a].y = @ + vy * h,
                   ![a].ax = 0, ![a].ay = 0,
                   ![a].E_kin = E_kin,
                   ![a].total_energy = total,
                   ![a].energies = Append(@, total),
                   ![a].kin_energies = Append(@, E_kin),
                   ![a].pot_energies = Append(@, ps[a].E_pot)]

\* UpdateVelocity with a fault: the potential energy is not recorded.
UpdateVelocityNoPotHistory(ps, a, h) ==
    LET vx == ps[a].vx + ps[a].ax * h
        vy == ps[a].vy + ps[a].ay * h
        v == get_velocity([vx |-> vx, vy |-> vy])
        E_kin == Quot(ps[a].mass * v * v, 2)
        total == E_kin + ps[a].E_pot
    IN  [ps EXCEPT ![a].vx = vx, ![a].vy = vy,
                   ![a].ax = 0, ![a].ay = 0,
                   ![a].E_kin = E_kin,
                   ![a].total_energy = total,
                   ![a].energies = Append(@, total),
                   ![a].kin_energies = Append(@, E_kin)]

\* lines 104-114: the end of the outer loop's body for planet a
UpdateVelocity(ps, a, h) ==
    LET vx == ps[a].vx + ps[a].ax * h
        vy == ps[a].vy + ps[a].ay * h
        v == get_velocity([vx |-> vx, vy |-> vy])
        E_kin == Quot(ps[a].mass * v * v, 2)
        total == E_kin + ps[a].E_pot
    IN  [ps EXCEPT ![a].vx = vx, ![a].vy = vy,
                   ![a].ax = 0, ![a].ay = 0,
                   ![a].E_kin = E_kin,
                   ![a].total_energy = total,
                   ![a].energies = Append(@, total),
                   ![a].kin_energies = Append(@, E_kin),
                   ![a].pot_energies = Append(@, ps[a].E_pot)]

\* MovePlanet with a fault: y is not recorded.
MovePlanetNoY(ps, a, h) ==
    LET x == ps[a].x + ps[a].vx * h
        y == ps[a].y + ps[a].vy * h
    IN  [ps EXCEPT ![a].x = x, ![a].y = y,
                   ![a].x_positions = Append(@, x)]

\* lines 117-121: the second loop's body for planet a
MovePlanet(ps, a, h) ==
    LET x == ps[a].x + ps[a].vx * h
        y == ps[a].y + ps[a].vy * h
    IN  [ps EXCEPT ![a].x = x, ![a].y = y,
                   ![a].x_positions = Append(@, x),
                   ![a].y_positions = Append(@, y)]

\* LoopCondition with a fault: the comparison is strict.
LoopConditionStrict(t, yr) == t < yr

\* line 134: the condition of Main's while loop
LoopCondition(t, yr) == t <= yr

----------------------------------------------------------------------------
\* Inputs

\* Arguments (x, y, vx, vy, ax, ay, mass) given to Planet(); E_kin and E_pot
\* are 0.0 as in setup_planets.  Planet() accepts any mass and any
\* accumulator values.
Templates ==
    { [x |-> 0, y |-> 0, vx |-> 0, vy |-> 0, ax |-> 0, ay |-> 0, mass |-> 2],
      [x |-> 2, y |-> 0, vx |-> 0, vy |-> 1, ax |-> 0, ay |-> 0, mass |-> 1],
      [x |-> 0, y |-> 3, vx |-> 1, vy |-> 0, ax |-> 0, ay |-> 0, mass |-> 1],
      [x |-> 2, y |-> 0, vx |-> 0, vy |-> 0, ax |-> 0, ay |-> 0, mass |-> 0],
      [x |-> 0, y |-> 3, vx |-> -1, vy |-> 0, ax |-> 1, ay |-> 0, mass |-> 2],
      [x |-> 6, y |-> 0, vx |-> -3, vy |-> 0, ax |-> 0, ay |-> 0, mass |-> 1] }

NameLists == { <<"earth", "moon", "sun">>, <<"earth", "earth", "sun">> }

DtSet == 0..MaxDt
DurationSet == -1..MaxDuration

----------------------------------------------------------------------------
\* Main

Init ==
    /\ \E names \in NameLists : \E t \in [Idx -> Templates] :
         planets = [k \in Idx |->
                      Planet(names[k], t[k].x, t[k].y, t[k].vx, t[k].vy,
                             t[k].ax, t[k].ay, t[k].mass, 0, 0)]
    /\ dt \in DtSet
    /\ year \in DurationSet
    /\ time = 0
    /\ pc = "while"
    /\ i = 1
    /\ j = 1
    /\ err = "none"
    /\ steps = 0
    /\ pre = planets

\* line 134 true: call loop_euler (line 135)
EnterStep ==
    /\ pc = "while"
    /\ LoopCondition(time, year)
    /\ steps < MaxSteps
    /\ pc' = "pair"
    /\ i' = 1
    /\ j' = 1
    /\ pre' = planets
    /\ UNCHANGED <<planets, dt, year, time, err, steps>>

\* line 134 false: leave the loop
ExitLoop ==
    /\ pc = "while"
    /\ ~LoopCondition(time, year)
    /\ pc' = "done"
    /\ UNCHANGED <<planets, dt, year, time, i, j, err, steps, pre>>

\* lines 90-102: one iteration of the inner loop
Pair ==
    /\ pc = "pair"
    /\ j <= NumPlanets
    /\ IF i = j
       THEN /\ j' = j + 1
            /\ UNCHANGED <<planets, pc, err>>
       ELSE IF DivisionByZero(planets, i, j)
            THEN /\ pc' = "failed"
                 /\ err' = "ZeroDivisionError"
                 /\ UNCHANGED <<planets, j>>
            ELSE /\ planets' = Interact(planets, i, j)
                 /\ j' = j + 1
                 /\ UNCHANGED <<pc, err>>
    /\ UNCHANGED <<dt, year, time, i, steps, pre>>

\* lines 104-114, then the next planet of the first loop or the second loop
Velocity ==
    /\ pc = "pair"
    /\ j > NumPlanets
    /\ planets' = UpdateVelocity(planets, i, dt)
    /\ j' = 1
    /\ IF i < NumPlanets
       THEN i' = i + 1 /\ pc' = "pair"
       ELSE i' = 1 /\ pc' = "move"
    /\ UNCHANGED <<dt, year, time, err, steps, pre>>

\* lines 116-121: one iteration of the second loop
Move ==
    /\ pc = "move"
    /\ planets' = MovePlanet(planets, i, dt)
    /\ IF i < NumPlanets
       THEN i' = i + 1 /\ pc' = "move"
       ELSE i' = 1 /\ pc' = "ret"
    /\ UNCHANGED <<dt, year, time, j, err, steps, pre>>

\* line 123 and Main line 136
Return ==
    /\ pc = "ret"
    /\ time' = time + dt
    /\ steps' = steps + 1
    /\ pc' = "while"
    /\ UNCHANGED <<planets, dt, year, i, j, err, pre>>

Next == EnterStep \/ ExitLoop \/ Pair \/ Velocity \/ Move \/ Return

Spec == Init /\ [][Next]_vars

----------------------------------------------------------------------------
\* loop_euler as a function of the list and the step size: the two loops of
\* lines 89-121 run to the end, or to the first division by zero.

RECURSIVE InnerLoop(_, _, _)
InnerLoop(ps, a, b) ==
    IF b > NumPlanets THEN [ok |-> TRUE, ps |-> ps]
    ELSE IF a = b THEN InnerLoop(ps, a, b + 1)
    ELSE IF DivisionByZero(ps, a, b) THEN [ok |-> FALSE, ps |-> ps]
    ELSE InnerLoop(Interact(ps, a, b), a, b + 1)

RECURSIVE FirstLoop(_, _, _)
FirstLoop(ps, a, h) ==
    IF a > NumPlanets THEN [ok |-> TRUE, ps |-> ps]
    ELSE LET r == InnerLoop(ps, a, 1)
         IN  IF r.ok THEN FirstLoop(UpdateVelocity(r.ps, a, h), a + 1, h) ELSE r

RECURSIVE SecondLoop(_, _, _)
SecondLoop(ps, a, h) ==
    IF a > NumPlanets THEN ps ELSE SecondLoop(MovePlanet(ps, a, h), a + 1, h)

loop_euler(ps, h) ==
    LET r == FirstLoop(ps, 1, h)
    IN  IF r.ok THEN [ok |-> TRUE, ps |-> SecondLoop(r.ps, 1, h)] ELSE r

----------------------------------------------------------------------------
\* Vocabulary of the properties

RECURSIVE SumOver(_, _)
SumOver(f, S) ==
    IF S = {} THEN 0
    ELSE LET e == CHOOSE e \in S : TRUE IN f[e] + SumOver(f, S \ {e})

Last(s) == s[Len(s)]

\* The setups the specification calls invalid: a mass <= 0, a dt <= 0, a
\* negative duration, a repeated name.
InvalidSetup ==
    \/ \E k \in Idx : planets[k].mass <= 0
    \/ dt <= 0
    \/ year < 0
    \/ \E a, b \in Idx : a # b /\ planets[a].name = planets[b].name

ValidSetup == ~InvalidSetup

Stepping == pc \in {"pair", "move", "ret"}

Coincide(ps, a, b) == ps[a].x = ps[b].x /\ ps[a].y = ps[b].y

Coincident(ps) == \E a, b \in Idx : a # b /\ Coincide(ps, a, b)

ZeroAccumulators(ps) == \A k \in Idx : ps[k].ax = 0 /\ ps[k].ay = 0

\* r_ab, and the terms of the force law for the ordered pair (a, b), written
\* from the positions and masses of the list ps
Radius(ps, a, b) ==
    ISqrt((ps[a].x - ps[b].x) * (ps[a].x - ps[b].x)
          + (ps[a].y - ps[b].y) * (ps[a].y - ps[b].y))

AccTermX(ps, a, b) ==
    Quot(-GRAV_CONST * ps[b].mass, Radius(ps, a, b) * Radius(ps, a, b) * Radius(ps, a, b))
      * (ps[a].x - ps[b].x)

AccTermY(ps, a, b) ==
    Quot(-GRAV_CONST * ps[b].mass, Radius(ps, a, b) * Radius(ps, a, b) * Radius(ps, a, b))
      * (ps[a].y - ps[b].y)

PotTerm(ps, a, b) == Quot(-GRAV_CONST * ps[a].mass * ps[b].mass, Radius(ps, a, b))

SumAccX(ps, a) == SumOver([b \in Idx |-> IF b = a THEN 0 ELSE AccTermX(ps, a, b)], Idx)
SumAccY(ps, a) == SumOver([b \in Idx |-> IF b = a THEN 0 ELSE AccTermY(ps, a, b)], Idx)
SumPot(ps, a) == SumOver([b \in Idx |-> IF b = a THEN 0 ELSE PotTerm(ps, a, b)], Idx)

HistoryLengths(p) ==
    {Len(p.x_positions), Len(p.y_positions), Len(p.kin_energies),
     Len(p.pot_energies), Len(p.energies)}

----------------------------------------------------------------------------
\* C1: between two calls of loop_euler and after the last one, N calls
\* having returned, each of the five histories of every planet has length
\* exactly N.
C1_HistoryLength ==
    pc \in {"while", "done"} =>
        \A k \in Idx : HistoryLengths(planets[k]) = {steps}

C1_Witness ==
    /\ pc = "while"
    /\ steps = 2
    /\ \A k \in Idx : Len(planets[k].pot_energies) = 2 /\ Len(planets[k].y_positions) = 2

\* C2, on runs with a valid setup: the potential energy recorded for planet
\* k in a step is the sum of that step's pairwise terms -G*m_k*m_b/r_kb
\* alone, and the recorded total energy is that step's kinetic plus that
\* step's potential energy.
C2_PotentialOfThisStep ==
    (pc = "ret" /\ ValidSetup) =>
        \A k \in Idx :
            /\ Last(planets[k].pot_energies) = SumPot(pre, k)
            /\ Last(planets[k].energies) = Last(planets[k].kin_energies) + SumPot(pre, k)

\* C3: no position changes while the first loop runs, and a step entered
\* with zero accumulators gives every planet
\* v' = v + dt * (sum of the pairwise terms at the positions held on entry)
\* and x' = x + dt * v'.
C3_EulerStep ==
    /\ pc = "pair" =>
          \A k \in Idx : planets[k].x = pre[k].x /\ planets[k].y = pre[k].y
    /\ (pc = "ret" /\ ZeroAccumulators(pre)) =>
          \A k \in Idx :
              /\ planets[k].vx = pre[k].vx + dt * SumAccX(pre, k)
              /\ planets[k].vy = pre[k].vy + dt * SumAccY(pre, k)
              /\ planets[k].x = pre[k].x + dt * planets[k].vx
              /\ planets[k].y = pre[k].y + dt * planets[k].vy

C3_Witness ==
    /\ pc = "ret"
    /\ ZeroAccumulators(pre)
    /\ dt = 2
    /\ planets[2].vx # pre[2].vx
    /\ planets[2].vy # pre[2].vy
    /\ planets[2].x # pre[2].x
    /\ AccTermX(pre, 2, 1) # 0
    /\ AccTermX(pre, 2, 3) # 0

\* C4: a step that completes gives every planet the same record (position,
\* velocity, energies, histories) whatever the order of the list: the list
\* the run holds when loop_euler returns is, planet by planet, what
\* loop_euler computes from any permutation of the list it was entered with.
Permutations == {p \in [Idx -> Idx] : \A a, b \in Idx : p[a] = p[b] => a = b}

Permuted(ps, p) == [k \in Idx |-> ps[p[k]]]

C4_OrderIndependent ==
    pc = "ret" =>
        \A p \in Permutations :
            LET r == loop_euler(Permuted(pre, p), dt)
            IN  r.ok /\ \A k \in Idx : r.ps[k] = planets[p[k]]

C4_Witness ==
    /\ pc = "ret"
    /\ dt > 0
    /\ \A k \in Idx : planets[k].x # pre[k].x \/ planets[k].y # pre[k].y
    /\ \A a, b \in Idx : a # b => pre[a].mass # pre[b].mass

C6_InvalidSetupRejected ==
    InvalidSetup =>
        /\ steps = 0
        /\ \A k \in Idx : planets[k] = pre[k]

\* C7: for dt > 0 and year >= 0 the loop of Main runs a step only while
\* time <= year, time is steps * dt, and a run that leaves the loop has made
\* exactly floor(year / dt) + 1 calls, with year < time <= year + dt; at
\* the head of the loop the program always either enters a step or leaves.
C7_StepCount ==
    (dt > 0 /\ year >= 0) =>
        /\ Stepping => time <= year
        /\ time = steps * dt
        /\ steps <= year \div dt + 1
        /\ pc = "done" => /\ steps = year \div dt + 1
                          /\ time > year
                          /\ time <= year + dt
        /\ pc = "while" => ENABLED Next

C7_Witness ==
    /\ pc = "done"
    /\ dt = 2
    /\ year = 2
    /\ steps = 2
    /\ time = 4

\* C8: no step of the program changes a planet's mass or name, and an
\* iteration of the first loop for planet i changes no field of any other
\* planet.
C8_Frame ==
    [][ /\ \A k \in Idx : /\ planets'[k].mass = planets[k].mass
                          /\ planets'[k].name = planets[k].name
        /\ pc = "pair" => \A k \in Idx \ {i} : planets'[k] = planets[k] ]_vars

C8_Witness ==
    /\ pc = "pair"
    /\ i = 2
    /\ planets[2].ax # pre[2].ax
    /\ planets[2].E_pot # pre[2].E_pot
    /\ planets[1].vx # pre[1].vx

\* What one iteration of the inner loop adds to planet a's accumulators for
\* other_planet b: the acceleration contribution a_ab of this step.
ContribX(ps, a, b) == Interact(ps, a, b)[a].ax - ps[a].ax
ContribY(ps, a, b) == Interact(ps, a, b)[a].ay - ps[a].ay

MomentumX(ps) == SumOver([k \in Idx |-> ps[k].mass * ps[k].vx], Idx)
MomentumY(ps) == SumOver([k \in Idx |-> ps[k].mass * ps[k].vy], Idx)

Max(a, b) == IF a >= b THEN a ELSE b

\* The rounding of the two quotients G*m_b/r^3 and G*m_a/r^3 of a pair, each
\* off by less than one unit, scaled as the third law scales them.
PairTolX(ps, a, b) == Max(Abs(ps[a].mass), Abs(ps[b].mass)) * Abs(ps[a].x - ps[b].x)
PairTolY(ps, a, b) == Max(Abs(ps[a].mass), Abs(ps[b].mass)) * Abs(ps[a].y - ps[b].y)

StepTolX(ps) ==
    SumOver([a \in Idx |->
               SumOver([b \in Idx |-> IF a < b THEN PairTolX(ps, a, b) ELSE 0], Idx)], Idx)
StepTolY(ps) ==
    SumOver([a \in Idx |->
               SumOver([b \in Idx |-> IF a < b THEN PairTolY(ps, a, b) ELSE 0], Idx)], Idx)

\* The inner loop is about to compute the contribution of other_planet j
\* to planet i.  Positions and masses do not change during the first loop,
\* so the contribution of i to j taken in the same state is the one the
\* step computes in j's turn.
PairAtHand ==
    /\ pc = "pair"
    /\ j <= NumPlanets
    /\ i # j
    /\ ~DivisionByZero(planets, i, j)

\* C9 as stated, on runs with a valid setup and no two planets at one
\* place: for every pair (i, j) the first loop computes, the contributions
\* satisfy m_i * a_ij = -m_j * a_ji in each coordinate, and a step entered
\* with zero accumulators returns with the total momentum it was entered
\* with.
C9_ThirdLawExact ==
    /\ (PairAtHand /\ ValidSetup /\ ~Coincident(pre)) =>
          /\ planets[i].mass * ContribX(planets, i, j)
               = -planets[j].mass * ContribX(planets, j, i)
          /\ planets[i].mass * ContribY(planets, i, j)
               = -planets[j].mass * ContribY(planets, j, i)
    /\ (pc = "ret" /\ ValidSetup /\ ZeroAccumulators(pre)) =>
          /\ MomentumX(planets) = MomentumX(pre)
          /\ MomentumY(planets) = MomentumY(pre)

\* C9 as amended: m_i * a_ij and -m_j * a_ji agree up to the rounding of
\* the two quotients, and the total momentum after a step entered with zero
\* accumulators differs from the momentum before it by no more than dt
\* times the rounding of the step's pairs.
C9_ThirdLawRounded ==
    /\ PairAtHand =>
          /\ Abs(planets[i].mass * ContribX(planets, i, j)
                 + planets[j].mass * ContribX(planets, j, i))
               <= PairTolX(planets, i, j)
          /\ Abs(planets[i].mass * ContribY(planets, i, j)
                 + planets[j].mass * ContribY(planets, j, i))
               <= PairTolY(planets, i, j)
    /\ (pc = "ret" /\ ZeroAccumulators(pre)) =>
          /\ Abs(MomentumX(planets) - MomentumX(pre)) <= Abs(dt) * StepTolX(pre)
          /\ Abs(MomentumY(planets) - MomentumY(pre)) <= Abs(dt) * StepTolY(pre)

C9_Witness ==
    /\ pc = "ret"
    /\ ZeroAccumulators(pre)
    /\ \A k \in Idx : pre[k].mass > 0
    /\ MomentumX(planets) # MomentumX(pre)
    /\ \E k \in Idx : planets[k].vx # pre[k].vx /\ planets[k].vy # pre[k].vy

\* C10: when a step fails, no planet's position or position history has
\* changed since the step was entered, and every planet before the failing
\* planet i in the list has its velocity updated and one value appended to
\* each of its energy histories, which are now one longer than its position
\* histories.
C10_FailsBeforeMove ==
    pc = "failed" =>
        /\ \A k \in Idx :
              /\ planets[k].x = pre[k].x
              /\ planets[k].y = pre[k].y
              /\ planets[k].x_positions = pre[k].x_positions
              /\ planets[k].y_positions = pre[k].y_positions
        /\ \A k \in 1..(i - 1) :
              /\ planets[k].vx = pre[k].vx + dt * (pre[k].ax + SumAccX(pre, k))
              /\ planets[k].vy = pre[k].vy + dt * (pre[k].ay + SumAccY(pre, k))
              /\ planets[k].energies = Append(pre[k].energies, planets[k].total_energy)
              /\ planets[k].kin_energies = Append(pre[k].kin_energies, planets[k].E_kin)
              /\ planets[k].pot_energies = Append(pre[k].pot_energies, planets[k].E_pot)
              /\ Len(planets[k].energies) = Len(planets[k].x_positions) + 1
              /\ Len(planets[k].kin_energies) = Len(planets[k].y_positions) + 1
              /\ Len(planets[k].pot_energies) = Len(planets[k].x_positions) + 1

C10_Witness ==
    /\ pc = "failed"
    /\ i = 2
    /\ dt > 0
    /\ planets[1].vx # pre[1].vx
    /\ Len(planets[1].energies) = Len(planets[1].x_positions) + 1

====
